---- MODULE Spec2Model ----
(***************************************************************************)
(* A model of the harbor file manager (package manager): a file store that *)
(* keeps files as blobs of a registry repository and records them as       *)
(* layers of the manifest of a tag.                                        *)
(*                                                                         *)
(* The registry is one repository (the address handed to every call) with  *)
(* the manifests of its tags and its blobs.  Each caller is a process that *)
(* runs one operation of the FileManager at a time; an operation is cut    *)
(* into steps at its accesses to the registry.                             *)
(***************************************************************************)
EXTENDS Integers, Sequences, FiniteSets, TLC

\* How many uploads one tag receives between two bootstraps.
MaxUploads == 2

Procs == {"p1", "p2"}
Tags == {"latest", "v1"}
Files == {"fileA", "fileB"}

\* The bytes of the local files.
FileContent == [fileA |-> <<1, 1>>, fileB |-> <<2>>]

\* The placeholder configuration blob of the bootstrap layout.
configContent == <<0>>

NoFile == "nofile"
NoDigest == <<>>
NoContent == <<>>

\* The digest of a blob: the algorithm and a value that identifies the bytes.
Digest(content) == <<"sha256", content>>

FileDigests == {Digest(FileContent[f]) : f \in Files}

LayerMediaType == "application/vnd.oci.image.layer.v1.tar+gzip"

\* The manifest of the bootstrap layout: the configuration blob and no layer.
manifestJSON ==
    [schemaVersion |-> 2,
     mediaType |-> "application/vnd.docker.distribution.manifest.v2+json",
     config |-> [mediaType |-> "application/vnd.oci.image.config.v1+json",
                 digest |-> Digest(configContent),
                 size |-> Len(configContent)],
     layers |-> <<>>]

VARIABLES
    manifests,  \* registry: tag -> <<>> (no manifest) or <<manifest>>
    blobs,      \* registry: the blobs of the repository, [digest, content]
    pc,         \* process -> the step it is at
    arg,        \* process -> the arguments and locals of its operation
    fetched,    \* process -> <<>> or <<the manifest its image source holds>>
    ret,        \* process -> what its last completed operation returned
    hist,       \* history: tag -> the files uploaded with success since the bootstrap push
    origin,     \* history: tag -> how its manifest came to be: "none", "bootstrap", or
                \* "afterDelete" (bootstrapped by the call that followed a successful DeleteRepo)
    returned,   \* history: [file, digest, tag] of the descriptors UploadFile returned since the last delete
    active,     \* the processes that run
    \* the singleton
    fmanager,   \* the package variable: 0 (nil) or the index in heap of the fileManager
    fmOnce,     \* the sync.Once: [done, m], m the caller that holds its mutex or ""
    heap,       \* the fileManager objects allocated so far
    opc,        \* caller -> the step of its SimpleNewOnce / NewOnce call
    ocall,      \* caller -> [config] of its call
    oret,       \* caller -> what its completed calls returned, [inst, config asked]
    initBy,     \* history: [caller, config] of every run of the initializer
    \* the catalog REST API
    artifacts,  \* the artifacts of the repository, in the order the registry lists them
    httpStatus, \* the status the registry answers with (0: no answer)
    httpBody,   \* the body of its answer: "json" (the listing) or "garbage"
    catRet,     \* what the last GetLatestArtifactDigest returned
    harborRepo, \* the address handed to the calls, [scheme, rest]
    request,    \* <<>> or <<the REST request the last call sent>>
    parsed,     \* what the last parseHarborURL returned
    delRet      \* what the last DeleteRepo returned

regVars == <<manifests, blobs, pc, arg, fetched, ret, hist, origin, returned, active>>
onceVars == <<fmanager, fmOnce, heap, opc, ocall, oret, initBy>>
catVars == <<artifacts, httpStatus, httpBody, catRet, harborRepo, request, parsed, delRet>>
vars == <<regVars, onceVars, catVars>>

Last(s) == s[Len(s)]

Args(op, tag, file, digest) ==
    [op |-> op, tag |-> tag, file |-> file, digest |-> digest, asked |-> digest,
     err |-> "none"]

Result(op, tag, err, digest, content, pushed) ==
    [op |-> op, tag |-> tag, err |-> err, digest |-> digest,
     content |-> content, pushed |-> pushed]

Failure(op, tag, err) == Result(op, tag, err, NoDigest, NoContent, FALSE)

NoArgs == Args("none", "latest", NoFile, NoDigest)

\* The operation of p returns r: its locals are gone.
Return(p, r) ==
    /\ pc' = [pc EXCEPT ![p] = "idle"]
    /\ ret' = [ret EXCEPT ![p] = r]
    /\ arg' = [arg EXCEPT ![p] = NoArgs]
    /\ fetched' = [fetched EXCEPT ![p] = <<>>]

\* The operation of p goes on to step next with the locals a and the fetched manifest f.
Goto(p, next, a, f) ==
    /\ pc' = [pc EXCEPT ![p] = next]
    /\ arg' = [arg EXCEPT ![p] = a]
    /\ fetched' = [fetched EXCEPT ![p] = f]
    /\ UNCHANGED ret

\* An existence check that also sees a bootstrap another caller is in.
checkRemoteRepoExistsOrPending(tag) ==
    \/ manifests["latest"] # <<>>
    \/ \E q \in active : pc[q] \in {"cr_layout", "cr_push"}

\* The existence check of CreateRepositoryIfNotExist: an image source is
\* opened for "docker://" + harborRepo, a reference without a tag.
checkRemoteRepoExists(tag) == manifests["latest"] # <<>>

\* The failures of NewImageSource other than a missing manifest.
SourceFailures == {"Unauthorized", "TransportError"}

\* err.Error(), word by word.
ErrorText(err) ==
    CASE err = "NotFound" -> <<"reading", "manifest:", "artifact", "not", "found">>
      [] err = "Unauthorized" -> <<"unauthorized:", "authentication", "required">>
      [] err = "TransportError" -> <<"dial", "tcp:", "no", "such", "host">>
      [] OTHER -> <<err>>

\* strings.Contains on the words of a text.
Contains(text, words) ==
    \E i \in 1..(Len(text) - Len(words) + 1) :
        SubSeq(text, i, i + Len(words) - 1) = words

\* A check that takes every failure for a missing repository.
isNotFoundAnyFailure(err) == TRUE

\* The failure of NewImageSource that checkRemoteRepoExists takes for a
\* missing repository.
isNotFound(err) == Contains(ErrorText(err), <<"not", "found">>)

\* What NewImageSource of the existence check can come back with.
SourceOutcomes(tag) ==
    (IF checkRemoteRepoExists(tag) THEN {"none"} ELSE {"NotFound"})
        \cup SourceFailures

\* A bootstrap push that leaves a manifest that is there alone.
uploadLocalImageToHarborIfAbsent(tag) ==
    IF manifests[tag] = <<>>
    THEN [manifests EXCEPT ![tag] = <<manifestJSON>>]
    ELSE manifests

\* Which tag the bootstrap push writes.
uploadLocalImageToHarbor(tag) == [manifests EXCEPT ![tag] = <<manifestJSON>>]

\* A layer entry with the size of the BlobInfo of a download.
newLayerSizeZero(digest, fileSize) ==
    [mediaType |-> LayerMediaType, digest |-> digest, size |-> 0]

\* The layer entry updateManifest builds for a pushed blob.
newLayer(digest, fileSize) ==
    [mediaType |-> LayerMediaType, digest |-> digest, size |-> fileSize]

(* A decoded manifest is a map from field names to values.  A JSON value   *)
(* cannot be asked for its type here, so a value of another type than the  *)
(* code asserts is kept under another name: a "layers" that is not an      *)
(* array is the field layersNonArray, a layer that is not an object has    *)
(* the one field nonObject, and a "digest" that is not a string is the     *)
(* field digestNonString.                                                  *)

\* manifest["layers"].([]interface{}): the assertion holds.
layersIsArray(manifest) == "layers" \in DOMAIN manifest

\* An update that writes the fields of the bootstrap manifest only.
updateManifestKnownFields(manifest, layer) ==
    [schemaVersion |-> manifest.schemaVersion,
     mediaType |-> manifest.mediaType,
     config |-> manifest.config,
     layers |-> IF layersIsArray(manifest)
                THEN Append(manifest.layers, layer)
                ELSE <<layer>>]

\* updateManifest: the fetched manifest with the new layer entry as the last
\* element of "layers", or as its only element when "layers" was no array.
updateManifest(manifest, layer) ==
    [k \in (DOMAIN manifest \ {"layersNonArray"}) \cup {"layers"} |->
        IF k = "layers"
        THEN IF layersIsArray(manifest)
             THEN Append(manifest.layers, layer)
             ELSE <<layer>>
        ELSE manifest[k]]

\* A reader that falls back on the digest of the config blob.
getLatestLayerDigestOrConfig(manifest) ==
    IF ~layersIsArray(manifest) \/ Len(manifest.layers) = 0
    THEN [err |-> "none", digest |-> manifest.config.digest]
    ELSE IF "nonObject" \in DOMAIN manifest.layers[1]
    THEN [err |-> "InvalidLayer", digest |-> NoDigest]
    ELSE IF "digest" \notin DOMAIN manifest.layers[1]
    THEN [err |-> "NoDigestField", digest |-> NoDigest]
    ELSE [err |-> "none", digest |-> manifest.layers[1].digest]

\* getLatestLayerDigest on a decoded manifest.
getLatestLayerDigest(manifest) ==
    IF ~layersIsArray(manifest) \/ Len(manifest.layers) = 0
    THEN [err |-> "NoLayers", digest |-> NoDigest]
    ELSE IF "nonObject" \in DOMAIN manifest.layers[1]
    THEN [err |-> "InvalidLayer", digest |-> NoDigest]
    ELSE IF "digest" \notin DOMAIN manifest.layers[1]
    THEN [err |-> "NoDigestField", digest |-> NoDigest]
    ELSE [err |-> "none", digest |-> manifest.layers[1].digest]

\* A manifest push is accepted when every layer names a blob and the
\* registry holds every blob the manifest names.
BlobsKnown(manifest) ==
    /\ \E b \in blobs : b.digest = manifest.config.digest
    /\ \A i \in 1..Len(manifest.layers) :
          /\ "digest" \in DOMAIN manifest.layers[i]
          /\ \E b \in blobs : b.digest = manifest.layers[i].digest

InitRegistry ==
    /\ manifests = [t \in Tags |-> <<>>]
    /\ blobs = {}
    /\ pc = [p \in Procs |-> "idle"]
    /\ arg = [p \in Procs |-> NoArgs]
    /\ fetched = [p \in Procs |-> <<>>]
    /\ ret = [p \in Procs |-> Failure("none", "latest", "none")]
    /\ hist = [t \in Tags |-> <<>>]
    /\ origin = [t \in Tags |-> "none"]
    /\ returned = {}

\* The callers of SimpleNewOnce and NewOnce, and the configurations they pass.
Callers == {"c1", "c2", "c3"}

\* How many calls of SimpleNewOnce / NewOnce one caller makes.
MaxCalls == 2

defaultRootHarborCacheDir == "/var/lib/harbor-file-cache/"

FmConfig ==
    {[HarborUserName |-> "xxx", HarborUserPassword |-> "xxxxx",
      RootCacheDir |-> defaultRootHarborCacheDir],
     [HarborUserName |-> "other", HarborUserPassword |-> "secret",
      RootCacheDir |-> "/tmp/cache"]}

NoCall == [config |-> CHOOSE c \in FmConfig : TRUE]

\* Before any call: fmanager is nil and fmOnce is the zero Once.
InitSingleton ==
    /\ fmanager = 0
    /\ fmOnce = [done |-> FALSE, m |-> ""]
    /\ heap = <<>>
    /\ opc = [c \in Callers |-> "idle"]
    /\ ocall = [c \in Callers |-> NoCall]
    /\ oret = [c \in Callers |-> <<>>]
    /\ initBy = <<>>

\* How many artifacts the repository holds.
MaxArtifacts == 3

ArtifactIds == {1, 3, 5, 7}
ArtifactDigests == {"", "sha256:aa", "sha256:bb"}

\* The fields of Artifact that the package reads.
Artifact == [ID : ArtifactIds, Digest : ArtifactDigests]

\* The listings of a repository: every artifact has its own id.
ArtifactLists ==
    {l \in UNION {[1..n -> Artifact] : n \in 0..MaxArtifacts} :
        \A i, j \in 1..Len(l) : i # j => l[i].ID # l[j].ID}

\* An error of the package: its kind and, for a response status other than
\* 200, what its text carries.
Error(kind, status, projectName, repoName) ==
    [err |-> kind, status |-> status, projectName |-> projectName,
     repoName |-> repoName]

NoError == Error("none", 0, <<>>, <<>>)

NotCalled == [called |-> FALSE, digest |-> "", page |-> <<>>] @@ NoError

NotParsed ==
    [called |-> FALSE, err |-> "none", hostname |-> <<>>, projectName |-> <<>>,
     repoName |-> <<>>]

NotDeleted == [called |-> FALSE] @@ NoError

\* The characters of an address, and the addresses: text is scheme then rest.
Chars == {"a", "b", ":", "/"}

\* How long the text behind the scheme of an address is.
MaxAddrLen == 6

Schemes == {"", "https://"}

Addresses ==
    [scheme : Schemes, rest : UNION {[1..n -> Chars] : n \in 0..MaxAddrLen}]

\* The addresses of the repository whose artifacts are listed.
CatalogRepos ==
    {[scheme |-> "", rest |-> <<"a", "/", "a", "/", "b">>],
     [scheme |-> "https://", rest |-> <<"a", "/", "b", "/", "a">>]}

InitCatalog ==
    /\ artifacts = <<>>
    /\ httpStatus = 0
    /\ httpBody = "json"
    /\ catRet = NotCalled
    /\ harborRepo = [scheme |-> "", rest |-> <<>>]
    /\ request = <<>>
    /\ parsed = NotParsed
    /\ delRet = NotDeleted

Init ==
    /\ InitRegistry
    /\ active = {"p1"}
    /\ InitSingleton
    /\ InitCatalog

----------------------------------------------------------------------------
(* CreateRepositoryIfNotExist *)

CreateRepositoryIfNotExist_Check(p, tag) ==
    /\ pc[p] = "idle"
    /\ \/ Return(p, Failure("CreateRepositoryIfNotExist", tag, "ParseError"))
       \/ \E err \in SourceOutcomes(tag) :
             IF err = "none"
             THEN Return(p, Failure("CreateRepositoryIfNotExist", tag, "none"))
             ELSE IF isNotFound(err)
             THEN Goto(p, "cr_layout",
                       [Args("CreateRepositoryIfNotExist", tag, NoFile, NoDigest)
                           EXCEPT !.err = err],
                       <<>>)
             ELSE Return(p, Failure("CreateRepositoryIfNotExist", tag, err))
    /\ UNCHANGED <<manifests, blobs, hist, origin, returned, active, onceVars, catVars>>

CreateRepositoryIfNotExist_Layout(p) ==
    /\ pc[p] = "cr_layout"
    /\ \/ Return(p, Failure(arg[p].op, arg[p].tag, "LayoutError"))
       \/ Goto(p, "cr_push", arg[p], <<>>)
    /\ UNCHANGED <<manifests, blobs, hist, origin, returned, active, onceVars, catVars>>

CreateRepositoryIfNotExist_Push(p) ==
    /\ pc[p] = "cr_push"
    /\ \/ /\ Return(p, Failure(arg[p].op, arg[p].tag, "TransportError"))
          /\ UNCHANGED <<manifests, blobs, hist, origin>>
       \/ /\ manifests' = uploadLocalImageToHarbor(arg[p].tag)
          /\ blobs' = blobs \cup
                {[digest |-> Digest(configContent), content |-> configContent]}
          /\ hist' = [hist EXCEPT ![arg[p].tag] = <<>>]
          /\ origin' = [origin EXCEPT ![arg[p].tag] =
                           IF ret[p].op = "DeleteRepo" /\ ret[p].err = "none"
                           THEN "afterDelete" ELSE "bootstrap"]
          /\ Return(p, Result(arg[p].op, arg[p].tag, "none",
                              NoDigest, NoContent, TRUE))
    /\ UNCHANGED <<returned, active, onceVars, catVars>>

----------------------------------------------------------------------------
(* UploadFile *)

\* The descriptor PutBlob returns for the bytes it stored.
PutBlob(content) == [digest |-> Digest(content), size |-> Len(content)]

UploadFile_PutBlob(p, file, tag) ==
    /\ pc[p] = "idle"
    /\ Len(hist[tag]) < MaxUploads
    /\ \/ /\ \E e \in {"OpenError", "TransportError"} :
                Return(p, Failure("UploadFile", tag, e))
          /\ UNCHANGED blobs
       \/ /\ blobs' = blobs \cup
                {[digest |-> PutBlob(FileContent[file]).digest,
                  content |-> FileContent[file]]}
          /\ Goto(p, "up_source",
                  Args("UploadFile", tag, file, PutBlob(FileContent[file]).digest),
                  <<>>)
    /\ UNCHANGED <<manifests, hist, origin, returned, active, onceVars, catVars>>

\* An image source that makes up the bootstrap manifest for a tag without one.
GetManifestOrBootstrap(tag) ==
    IF manifests[tag] = <<>> THEN <<manifestJSON>> ELSE manifests[tag]

\* What the image source of updateManifest holds: <<>> when the tag has no
\* manifest (NewImageSource fails), else the manifest of the tag.
GetManifest(tag) == manifests[tag]

UploadFile_Source(p) ==
    /\ pc[p] = "up_source"
    /\ \/ Return(p, Failure(arg[p].op, arg[p].tag, "TransportError"))
       \/ /\ GetManifest(arg[p].tag) = <<>>
          /\ Return(p, Failure(arg[p].op, arg[p].tag, "NotFound"))
       \/ /\ GetManifest(arg[p].tag) # <<>>
          /\ Goto(p, "up_putmanifest", arg[p], GetManifest(arg[p].tag))
    /\ UNCHANGED <<manifests, blobs, hist, origin, returned, active, onceVars, catVars>>

\* The manifest the upload of p pushes.
UpdatedManifest(p) ==
    updateManifest(fetched[p][1],
                   newLayer(arg[p].digest, Len(FileContent[arg[p].file])))

\* A push that keeps the layers the tag holds by now and adds the pushed
\* document's last layer to them.
PutManifestOntoCurrent(tag, manifest) ==
    IF manifests[tag] = <<>>
    THEN [manifests EXCEPT ![tag] = <<manifest>>]
    ELSE [manifests EXCEPT ![tag] =
            <<[manifest EXCEPT !.layers =
                  Append(manifests[tag][1].layers, Last(manifest.layers))]>>]

\* PutManifest: the pushed document replaces the manifest of the tag.
PutManifest(tag, manifest) == [manifests EXCEPT ![tag] = <<manifest>>]

\* A push that returns an error and has stored the document all the same.
PutManifestFailedStored(tag, manifest) == [manifests EXCEPT ![tag] = <<manifest>>]

\* PutManifest returns an error: the registry has not taken the document.
PutManifestFailed(tag, manifest) == manifests

UploadFile_PutManifest(p) ==
    /\ pc[p] = "up_putmanifest"
    /\ \/ /\ Return(p, Failure(arg[p].op, arg[p].tag, "TransportError"))
          /\ manifests' = PutManifestFailed(arg[p].tag, UpdatedManifest(p))
          /\ UNCHANGED <<hist, origin, returned>>
       \/ /\ BlobsKnown(UpdatedManifest(p))
          /\ manifests' = PutManifest(arg[p].tag, UpdatedManifest(p))
          /\ hist' = [hist EXCEPT ![arg[p].tag] = Append(@, arg[p].file)]
          /\ UNCHANGED origin
          /\ returned' = returned \cup
                {[file |-> arg[p].file, digest |-> arg[p].digest,
                  tag |-> arg[p].tag]}
          /\ Return(p, Result(arg[p].op, arg[p].tag, "none",
                              arg[p].digest, NoContent, FALSE))
    /\ UNCHANGED <<blobs, active, onceVars, catVars>>

----------------------------------------------------------------------------
(* Resolution of the latest layer, and the downloads *)

GetLatestLayerDigest(p, tag) ==
    /\ pc[p] = "idle"
    /\ \/ Return(p, Failure("GetLatestLayerDigest", tag, "TransportError"))
       \/ /\ manifests[tag] = <<>>
          /\ Return(p, Failure("GetLatestLayerDigest", tag, "NotFound"))
       \/ /\ manifests[tag] # <<>>
          /\ LET r == getLatestLayerDigest(manifests[tag][1])
             IN Return(p, Result("GetLatestLayerDigest", tag, r.err,
                                 r.digest, NoContent, FALSE))
    /\ UNCHANGED <<manifests, blobs, hist, origin, returned, active, onceVars, catVars>>

\* A reference without the tag, as the one of the existence check.
destRefNoTag(tag) == "latest"

\* destRef of GetBlobDigest, harborRepo + ":" + tag: the tag it names.
destRef(tag) == tag

GetBlobDigest(p, tag) ==
    /\ pc[p] = "idle"
    /\ \/ Return(p, Failure("GetBlobDigest", tag, "TransportError"))
       \/ /\ manifests[destRef(tag)] = <<>>
          /\ Return(p, Failure("GetBlobDigest", tag, "NotFound"))
       \/ /\ manifests[destRef(tag)] # <<>>
          /\ LET r == getLatestLayerDigest(manifests[destRef(tag)][1])
             IN Return(p, Result("GetBlobDigest", tag, r.err,
                                 r.digest, NoContent, FALSE))
    /\ UNCHANGED <<manifests, blobs, hist, origin, returned, active, onceVars, catVars>>

GetDownloadReader_Source(p, tag) ==
    /\ pc[p] = "idle"
    /\ \/ \E e \in {"CacheDirError", "TransportError"} :
             Return(p, Failure("GetDownloadReader", tag, e))
       \/ /\ manifests[tag] = <<>>
          /\ Return(p, Failure("GetDownloadReader", tag, "NotFound"))
       \/ /\ manifests[tag] # <<>>
          /\ LET r == getLatestLayerDigest(manifests[tag][1])
             IN IF r.err # "none"
                THEN Return(p, Failure("GetDownloadReader", tag, r.err))
                ELSE Goto(p, "dl_blob",
                          Args("GetDownloadReader", tag, NoFile, r.digest),
                          manifests[tag])
    /\ UNCHANGED <<manifests, blobs, hist, origin, returned, active, onceVars, catVars>>

\* A download by digest that resolves the latest layer as the download by tag does.
requestedDigestOfLatestLayer(tag, digestStr) ==
    IF getLatestLayerDigest(manifests[tag][1]).err = "none"
    THEN getLatestLayerDigest(manifests[tag][1]).digest
    ELSE digestStr

\* The digest of the BlobInfo a download by digest hands to GetBlob.
requestedDigest(tag, digestStr) == digestStr

GetDownloadReaderWithBlobDigest_Source(p, tag, digestStr) ==
    /\ pc[p] = "idle"
    /\ \/ \E e \in {"CacheDirError", "TransportError"} :
             Return(p, Failure("GetDownloadReaderWithBlobDigest", tag, e))
       \/ /\ manifests[tag] = <<>>
          /\ Return(p, Failure("GetDownloadReaderWithBlobDigest", tag, "NotFound"))
       \/ /\ manifests[tag] # <<>>
          /\ Goto(p, "dl_blob",
                  [Args("GetDownloadReaderWithBlobDigest", tag, NoFile, digestStr)
                      EXCEPT !.digest = requestedDigest(tag, digestStr)],
                  manifests[tag])
    /\ UNCHANGED <<manifests, blobs, hist, origin, returned, active, onceVars, catVars>>

\* srcImg.GetBlob of both downloads.  The result names the digest the caller
\* asked for (the latest layer's, for a download by tag).
GetBlob(p) ==
    /\ pc[p] = "dl_blob"
    /\ \/ Return(p, Failure(arg[p].op, arg[p].tag, "TransportError"))
       \/ /\ \A b \in blobs : b.digest # arg[p].digest
          /\ Return(p, Failure(arg[p].op, arg[p].tag, "BlobUnknown"))
       \/ \E b \in blobs :
             /\ b.digest = arg[p].digest
             /\ Return(p, Result(arg[p].op, arg[p].tag, "none",
                                 arg[p].asked, b.content, FALSE))
    /\ UNCHANGED <<manifests, blobs, hist, origin, returned, active, onceVars, catVars>>

----------------------------------------------------------------------------
(* DeleteRepo *)

\* A deletion that leaves the tag "latest" in place.
DeleteHarborRepoKeepsLatest == [manifests EXCEPT !["v1"] = <<>>]

\* The manifests of the repository once the registry has deleted it.
DeleteHarborRepo == [t \in Tags |-> <<>>]

DeleteRepo(p) ==
    /\ pc[p] = "idle"
    /\ \/ /\ Return(p, Failure("DeleteRepo", "latest", "HTTPStatusError"))
          /\ UNCHANGED <<manifests, blobs, hist, origin, returned>>
       \/ /\ \E t \in Tags : manifests[t] # <<>>
          /\ manifests' = DeleteHarborRepo
          /\ blobs' \in {blobs, {}}
          /\ hist' = [t \in Tags |-> <<>>]
          /\ origin' = [t \in Tags |-> "none"]
          /\ returned' = {}
          /\ Return(p, Failure("DeleteRepo", "latest", "none"))
    /\ UNCHANGED <<active, onceVars, catVars>>

----------------------------------------------------------------------------

Next ==
    \/ \E p \in active, tag \in Tags : CreateRepositoryIfNotExist_Check(p, tag)
    \/ \E p \in active : CreateRepositoryIfNotExist_Layout(p)
    \/ \E p \in active : CreateRepositoryIfNotExist_Push(p)
    \/ \E p \in active, f \in Files, tag \in Tags : UploadFile_PutBlob(p, f, tag)
    \/ \E p \in active : UploadFile_Source(p)
    \/ \E p \in active : UploadFile_PutManifest(p)
    \/ \E p \in active, tag \in Tags : GetLatestLayerDigest(p, tag)
    \/ \E p \in active, tag \in Tags : GetDownloadReader_Source(p, tag)
    \/ \E p \in active, tag \in Tags, d \in FileDigests :
          GetDownloadReaderWithBlobDigest_Source(p, tag, d)
    \/ \E p \in active : GetBlob(p)
    \/ \E p \in active : DeleteRepo(p)

Spec == Init /\ [][Next]_vars

----------------------------------------------------------------------------
(* Two callers at once, both on the tag "latest": bootstraps and uploads,   *)
(* each caller with a file of its own.                                     *)

ConcTags == {"latest"}

ConcFile == [p1 |-> "fileA", p2 |-> "fileB"]

InitConc ==
    /\ InitRegistry
    /\ active = {"p1", "p2"}
    /\ InitSingleton
    /\ InitCatalog

NextConc ==
    \/ \E p \in active, tag \in ConcTags : CreateRepositoryIfNotExist_Check(p, tag)
    \/ \E p \in active : CreateRepositoryIfNotExist_Layout(p)
    \/ \E p \in active : CreateRepositoryIfNotExist_Push(p)
    \/ \E p \in active, tag \in ConcTags : UploadFile_PutBlob(p, ConcFile[p], tag)
    \/ \E p \in active : UploadFile_Source(p)
    \/ \E p \in active : UploadFile_PutManifest(p)

SpecConc == InitConc /\ [][NextConc]_vars

----------------------------------------------------------------------------
(* One caller on a repository whose tag "latest" holds a manifest that was *)
(* pushed by this package or by another client of the registry.            *)

\* The layer entry of fileA, as updateManifest writes it.
layerA == newLayer(Digest(FileContent["fileA"]), Len(FileContent["fileA"]))

ManifestShapes ==
    {manifestJSON,
     \* one layer, and a field that the package does not know
     [schemaVersion |-> 2, mediaType |-> manifestJSON.mediaType,
      config |-> manifestJSON.config, layers |-> <<layerA>>,
      annotations |-> "kept"],
     \* no "layers"
     [schemaVersion |-> 2, mediaType |-> manifestJSON.mediaType,
      config |-> manifestJSON.config],
     \* "layers" is not an array
     [schemaVersion |-> 2, mediaType |-> manifestJSON.mediaType,
      config |-> manifestJSON.config, layersNonArray |-> "text"],
     \* the first layer is not an object
     [schemaVersion |-> 2, mediaType |-> manifestJSON.mediaType,
      config |-> manifestJSON.config, layers |-> <<[nonObject |-> 1], layerA>>],
     \* the first layer has no "digest"
     [schemaVersion |-> 2, mediaType |-> manifestJSON.mediaType,
      config |-> manifestJSON.config,
      layers |-> <<[mediaType |-> LayerMediaType, size |-> 2], layerA>>],
     \* the "digest" of the first layer is not a string
     [schemaVersion |-> 2, mediaType |-> manifestJSON.mediaType,
      config |-> manifestJSON.config,
      layers |-> <<[mediaType |-> LayerMediaType, digestNonString |-> 1,
                    size |-> 2]>>]}

InitShapes ==
    /\ manifests \in {[t \in Tags |-> IF t = "latest" THEN m ELSE <<>>] :
                         m \in {<<>>} \cup {<<s>> : s \in ManifestShapes}}
    /\ blobs = {[digest |-> Digest(c), content |-> c] :
                    c \in {configContent, FileContent["fileA"]}}
    /\ pc = [p \in Procs |-> "idle"]
    /\ arg = [p \in Procs |-> NoArgs]
    /\ fetched = [p \in Procs |-> <<>>]
    /\ ret = [p \in Procs |-> Failure("none", "latest", "none")]
    /\ hist = [t \in Tags |-> <<>>]
    /\ origin = [t \in Tags |-> "none"]
    /\ returned = {}
    /\ active = {"p1"}
    /\ InitSingleton
    /\ InitCatalog

NextShapes ==
    \/ \E p \in active, tag \in ConcTags : CreateRepositoryIfNotExist_Check(p, tag)
    \/ \E p \in active : CreateRepositoryIfNotExist_Layout(p)
    \/ \E p \in active : CreateRepositoryIfNotExist_Push(p)
    \/ \E p \in active, f \in Files, tag \in ConcTags : UploadFile_PutBlob(p, f, tag)
    \/ \E p \in active : UploadFile_Source(p)
    \/ \E p \in active : UploadFile_PutManifest(p)
    \/ \E p \in active, tag \in Tags : GetLatestLayerDigest(p, tag)
    \/ \E p \in active, tag \in Tags : GetBlobDigest(p, tag)
    \/ \E p \in active, tag \in ConcTags : GetDownloadReader_Source(p, tag)
    \/ \E p \in active : GetBlob(p)

SpecShapes == InitShapes /\ [][NextShapes]_vars

----------------------------------------------------------------------------
(* The singleton: SimpleNewOnce and NewOnce, both through fmOnce.Do.       *)
(* Once.Do reads done; when it is not set it takes the mutex, reads done   *)
(* again, runs the initializer, sets done, and gives the mutex back.       *)

\* An initializer that runs whatever the Once says.
initializerRunsAlways(once) == TRUE

\* fmOnce.Do(func): the initializer is still to run.
initializerRuns(once) == ~once.done

\* SimpleNewOnce: the configuration the initializer would use is built from
\* the three strings.
SimpleNewOnce_Call(c, harborUserName, harborUserPassword, rootCacheDir) ==
    /\ opc[c] = "idle"
    /\ Len(oret[c]) < MaxCalls
    /\ opc' = [opc EXCEPT ![c] = "do"]
    /\ ocall' = [ocall EXCEPT ![c] =
                    [config |-> [HarborUserName |-> harborUserName,
                                 HarborUserPassword |-> harborUserPassword,
                                 RootCacheDir |-> rootCacheDir]]]
    /\ UNCHANGED <<fmanager, fmOnce, heap, oret, initBy, regVars, catVars>>

\* NewOnce: the initializer would use the configuration handed in.
NewOnce_Call(c, config) ==
    /\ opc[c] = "idle"
    /\ Len(oret[c]) < MaxCalls
    /\ opc' = [opc EXCEPT ![c] = "do"]
    /\ ocall' = [ocall EXCEPT ![c] = [config |-> config]]
    /\ UNCHANGED <<fmanager, fmOnce, heap, oret, initBy, regVars, catVars>>

Once_Do(c) ==
    /\ opc[c] = "do"
    /\ opc' = [opc EXCEPT ![c] =
                  IF initializerRuns(fmOnce) THEN "lock" ELSE "return"]
    /\ UNCHANGED <<fmanager, fmOnce, heap, ocall, oret, initBy, regVars, catVars>>

Once_Lock(c) ==
    /\ opc[c] = "lock"
    /\ fmOnce.m = ""
    /\ fmOnce' = [fmOnce EXCEPT !.m = c]
    /\ opc' = [opc EXCEPT ![c] = "slow"]
    /\ UNCHANGED <<fmanager, heap, ocall, oret, initBy, regVars, catVars>>

\* doSlow under the mutex: the initializer allocates the fileManager with the
\* configuration of this call and stores it in fmanager.
Once_DoSlow(c) ==
    /\ opc[c] = "slow"
    /\ IF initializerRuns(fmOnce)
       THEN /\ heap' = Append(heap, [hifConf |-> ocall[c].config])
            /\ fmanager' = Len(heap) + 1
            /\ initBy' = Append(initBy, [caller |-> c, config |-> ocall[c].config])
            /\ opc' = [opc EXCEPT ![c] = "store"]
       ELSE /\ opc' = [opc EXCEPT ![c] = "unlock"]
            /\ UNCHANGED <<heap, fmanager, initBy>>
    /\ UNCHANGED <<fmOnce, ocall, oret, regVars, catVars>>

Once_Store(c) ==
    /\ opc[c] = "store"
    /\ fmOnce' = [fmOnce EXCEPT !.done = TRUE]
    /\ opc' = [opc EXCEPT ![c] = "unlock"]
    /\ UNCHANGED <<fmanager, heap, ocall, oret, initBy, regVars, catVars>>

Once_Unlock(c) ==
    /\ opc[c] = "unlock"
    /\ fmOnce' = [fmOnce EXCEPT !.m = ""]
    /\ opc' = [opc EXCEPT ![c] = "return"]
    /\ UNCHANGED <<fmanager, heap, ocall, oret, initBy, regVars, catVars>>

\* return fmanager
Once_Return(c) ==
    /\ opc[c] = "return"
    /\ oret' = [oret EXCEPT ![c] =
                   Append(@, [inst |-> fmanager, config |-> ocall[c].config])]
    /\ opc' = [opc EXCEPT ![c] = "idle"]
    /\ ocall' = [ocall EXCEPT ![c] = NoCall]
    /\ UNCHANGED <<fmanager, fmOnce, heap, initBy, regVars, catVars>>

InitOnce ==
    /\ InitRegistry
    /\ active = {}
    /\ InitSingleton
    /\ InitCatalog

NextOnce ==
    \/ \E c \in Callers, config \in FmConfig :
          SimpleNewOnce_Call(c, config.HarborUserName, config.HarborUserPassword,
                             config.RootCacheDir)
    \/ \E c \in Callers, config \in FmConfig : NewOnce_Call(c, config)
    \/ \E c \in Callers : Once_Do(c)
    \/ \E c \in Callers : Once_Lock(c)
    \/ \E c \in Callers : Once_DoSlow(c)
    \/ \E c \in Callers : Once_Store(c)
    \/ \E c \in Callers : Once_Unlock(c)
    \/ \E c \in Callers : Once_Return(c)

SpecOnce == InitOnce /\ [][NextOnce]_vars

----------------------------------------------------------------------------------------------------------------------------------------
(* The repository locator: an address is taken apart into the host name,   *)
(* the project name and the repository name.  A string is a sequence of     *)
(* characters.                                                             *)

RECURSIVE TrimLeft(_, _)
TrimLeft(str, cutset) ==
    IF Len(str) > 0 /\ str[1] = cutset THEN TrimLeft(Tail(str), cutset) ELSE str

RECURSIVE TrimRight(_, _)
TrimRight(str, cutset) ==
    IF Len(str) > 0 /\ str[Len(str)] = cutset
    THEN TrimRight(SubSeq(str, 1, Len(str) - 1), cutset)
    ELSE str

\* strings.Trim with a cutset of one character.
Trim(str, cutset) == TrimRight(TrimLeft(str, cutset), cutset)

\* strings.Split on a separator of one character.
RECURSIVE Split(_, _)
Split(str, sep) ==
    IF \A i \in 1..Len(str) : str[i] # sep
    THEN <<str>>
    ELSE LET i == CHOOSE j \in 1..Len(str) :
                      str[j] = sep /\ \A k \in 1..(j - 1) : str[k] # sep
         IN <<SubSeq(str, 1, i - 1)>> \o Split(SubSeq(str, i + 1, Len(str)), sep)

\* strings.Join.
RECURSIVE Join(_, _)
Join(elems, sep) ==
    IF Len(elems) = 0 THEN <<>>
    ELSE IF Len(elems) = 1 THEN elems[1]
    ELSE elems[1] \o <<sep>> \o Join(Tail(elems), sep)

\* Every part of the last segment, the last one too.
imageNamePartsAll(subParts) == subParts

\* subParts[:len(subParts)-1]
imageNameParts(subParts) == SubSeq(subParts, 1, Len(subParts) - 1)

extractProjectNameAndRepoName(repoPathURI) ==
    LET mainParts == Split(Trim(repoPathURI, "/"), "/")
        projectName == mainParts[1]
        lastMainPart == mainParts[Len(mainParts)]
        subParts == Split(lastMainPart, ":")
    IN IF Len(mainParts) = 0
       THEN [projectName |-> <<>>, repoName |-> <<>>]
       ELSE IF ~Contains(lastMainPart, <<":">>)
       THEN [projectName |-> projectName, repoName |-> lastMainPart]
       ELSE [projectName |-> projectName,
             repoName |-> IF Len(subParts) > 2
                          THEN Join(imageNameParts(subParts), "-")
                          ELSE IF Len(subParts) = 1
                          THEN subParts[1]
                          ELSE <<>>]

\* url.Parse of "https://" and rest, then Hostname() and Path: the authority
\* runs up to the first "/", and a port that is not a number is an error.
urlParse(rest) ==
    LET authority == Split(rest, "/")[1]
        colon == CHOOSE i \in 0..Len(authority) :
                     /\ i > 0 => authority[i] = ":"
                     /\ \A k \in (i + 1)..Len(authority) : authority[k] # ":"
    IN IF colon > 0 /\ colon < Len(authority)
       THEN [err |-> "ParseError", hostname |-> <<>>, path |-> <<>>]
       ELSE [err |-> "none",
             hostname |-> IF colon > 0 THEN SubSeq(authority, 1, colon - 1)
                          ELSE authority,
             path |-> SubSeq(rest, Len(authority) + 1, Len(rest))]

extractHostnameAndPathFromURL(inputURL) ==
    IF inputURL.scheme = ""
    THEN LET inputURLArray == Split(inputURL.rest, "/")
         IN [err |-> "none",
             hostname |-> inputURLArray[1],
             path |-> SubSeq(inputURL.rest, Len(inputURLArray[1]) + 1,
                             Len(inputURL.rest))]
    ELSE urlParse(inputURL.rest)

parseHarborURL(harborRepoURL) ==
    LET u == extractHostnameAndPathFromURL(harborRepoURL)
        n == extractProjectNameAndRepoName(u.path)
    IN IF u.err # "none"
       THEN [called |-> TRUE, err |-> u.err, hostname |-> <<>>,
             projectName |-> <<>>, repoName |-> <<>>]
       ELSE [called |-> TRUE, err |-> "none", hostname |-> u.hostname,
             projectName |-> n.projectName, repoName |-> n.repoName]

----------------------------------------------------------------------------
(* The catalog REST API: the artifact listing, the latest artifact and the *)
(* deletion of the repository.                                             *)

StatusOK == 200

\* The page GetLatestArtifactDigest asks for.
PageSize == 1
Page == 1

Min(a, b) == IF a < b THEN a ELSE b

\* A listing that takes a repository that is not there for an empty one.
GetArtifactsByPageLenient(listing, status, body, projectName, repoName, pageSize, page) ==
    IF status = 0
    THEN [artifacts |-> <<>>] @@ Error("TransportError", 0, <<>>, <<>>)
    ELSE IF status # StatusOK
    THEN [artifacts |-> <<>>] @@ NoError
    ELSE IF body # "json"
    THEN [artifacts |-> <<>>] @@ Error("DecodeError", 0, <<>>, <<>>)
    ELSE [artifacts |-> SubSeq(listing, (page - 1) * pageSize + 1,
                               Min(page * pageSize, Len(listing)))] @@ NoError

\* GetArtifactsByPage: the registry answers with the page-th page of pageSize
\* artifacts of its listing; any status but 200 is an error, and so is a body
\* that does not decode.
GetArtifactsByPage(listing, status, body, projectName, repoName, pageSize, page) ==
    IF status = 0
    THEN [artifacts |-> <<>>] @@ Error("TransportError", 0, <<>>, <<>>)
    ELSE IF status # StatusOK
    THEN [artifacts |-> <<>>]
            @@ Error("HTTPStatusError", status, projectName, repoName)
    ELSE IF body # "json"
    THEN [artifacts |-> <<>>] @@ Error("DecodeError", 0, <<>>, <<>>)
    ELSE [artifacts |-> SubSeq(listing, (page - 1) * pageSize + 1,
                               Min(page * pageSize, Len(listing)))] @@ NoError

\* The loop of GetLatestArtifactDigest from index i on.
RECURSIVE ScanMaxID(_, _, _, _)
ScanMaxID(arts, i, maxID, maxDigest) ==
    IF i > Len(arts)
    THEN maxDigest
    ELSE IF arts[i].ID > maxID
         THEN ScanMaxID(arts, i + 1, arts[i].ID, arts[i].Digest)
         ELSE ScanMaxID(arts, i + 1, maxID, maxDigest)

\* A scan that starts from an id above the smallest ids.
LatestDigestOfFromOne(arts) ==
    IF Len(arts) = 0 THEN "" ELSE ScanMaxID(arts, 1, 1, "")

\* What GetLatestArtifactDigest makes of the artifacts it was handed.
LatestDigestOf(arts) ==
    IF Len(arts) = 0 THEN "" ELSE ScanMaxID(arts, 1, -1, "")

GetLatestArtifactDigest(listing, status, body, projectName, repoName) ==
    LET r == GetArtifactsByPage(listing, status, body, projectName, repoName,
                                PageSize, Page)
    IN IF r.err # "none"
       THEN [called |-> TRUE, digest |-> "", page |-> r.artifacts]
               @@ Error(r.err, r.status, r.projectName, r.repoName)
       ELSE [called |-> TRUE, digest |-> LatestDigestOf(r.artifacts),
             page |-> r.artifacts] @@ NoError

\* DeleteHarborRepo: what the DELETE request comes back with.
DeleteHarborRepoStatus(status, projectName, repoName) ==
    IF status = 0
    THEN Error("TransportError", 0, <<>>, <<>>)
    ELSE IF status # StatusOK
    THEN Error("HTTPStatusError", status, projectName, repoName)
    ELSE NoError

\* The REST request of a call, to "https://" + hostname.
Request(method, u) ==
    [method |-> method, hostname |-> u.hostname, projectName |-> u.projectName,
     repoName |-> u.repoName]

\* fileManager.GetLatestArtifactDigest(harborRepo): the address is parsed
\* and the listing is asked for; without a host name no request leaves.
Catalog_GetLatestArtifactDigest ==
    LET u == parseHarborURL(harborRepo)
    IN /\ IF u.err # "none"
          THEN /\ catRet' = [called |-> TRUE, digest |-> "", page |-> <<>>]
                               @@ Error(u.err, 0, <<>>, <<>>)
               /\ request' = <<>>
          ELSE IF u.hostname = <<>>
          THEN /\ catRet' = [called |-> TRUE, digest |-> "", page |-> <<>>]
                               @@ Error("TransportError", 0, <<>>, <<>>)
               /\ request' = <<>>
          ELSE /\ catRet' = GetLatestArtifactDigest(artifacts, httpStatus, httpBody,
                                                    u.projectName, u.repoName)
               /\ request' = <<Request("GET", u)>>
       /\ parsed' = NotParsed
       /\ delRet' = NotDeleted
       /\ UNCHANGED <<artifacts, httpStatus, httpBody, harborRepo, regVars, onceVars>>

\* fileManager.DeleteRepo(harborRepo): the address is parsed and the
\* deletion is asked for; a repository that was deleted has no artifacts.
Catalog_DeleteRepo ==
    LET u == parseHarborURL(harborRepo)
        e == DeleteHarborRepoStatus(httpStatus, u.projectName, u.repoName)
    IN /\ IF u.err # "none"
          THEN /\ delRet' = [called |-> TRUE] @@ Error(u.err, 0, <<>>, <<>>)
               /\ request' = <<>>
               /\ UNCHANGED artifacts
          ELSE IF u.hostname = <<>>
          THEN /\ delRet' = [called |-> TRUE]
                               @@ Error("TransportError", 0, <<>>, <<>>)
               /\ request' = <<>>
               /\ UNCHANGED artifacts
          ELSE /\ delRet' = [called |-> TRUE] @@ e
               /\ request' = <<Request("DELETE", u)>>
               /\ artifacts' = IF e.err = "none" THEN <<>> ELSE artifacts
       /\ parsed' = NotParsed
       /\ catRet' = NotCalled
       /\ UNCHANGED <<httpStatus, httpBody, harborRepo, regVars, onceVars>>

InitCatalogAny ==
    /\ InitRegistry
    /\ active = {}
    /\ InitSingleton
    /\ artifacts \in ArtifactLists
    /\ httpStatus \in {0, 200, 401, 404}
    /\ httpBody \in {"json", "garbage"}
    /\ catRet = NotCalled
    /\ harborRepo \in CatalogRepos
    /\ request = <<>>
    /\ parsed = NotParsed
    /\ delRet = NotDeleted

NextCatalog ==
    \/ Catalog_GetLatestArtifactDigest
    \/ Catalog_DeleteRepo

SpecCatalog == InitCatalogAny /\ [][NextCatalog]_vars

----------------------------------------------------------------------------
(* The locator and the catalog calls on any address (SpecLocator).         *)

Locator_parseHarborURL ==
    /\ parsed' = parseHarborURL(harborRepo)
    /\ request' = <<>>
    /\ catRet' = NotCalled
    /\ delRet' = NotDeleted
    /\ UNCHANGED <<artifacts, httpStatus, httpBody, harborRepo, regVars, onceVars>>

InitLocator ==
    /\ InitRegistry
    /\ active = {}
    /\ InitSingleton
    /\ artifacts = <<>>
    /\ httpStatus = StatusOK
    /\ httpBody = "json"
    /\ catRet = NotCalled
    /\ harborRepo \in Addresses
    /\ request = <<>>
    /\ parsed = NotParsed
    /\ delRet = NotDeleted

NextLocator ==
    \/ Locator_parseHarborURL
    \/ Catalog_GetLatestArtifactDigest
    \/ Catalog_DeleteRepo

SpecLocator == InitLocator /\ [][NextLocator]_vars

----------------
(* Sequential execution: one caller (Spec).                                *)

\* The last operation of p was op, and it returned without error.
Succeeded(p, op) ==
    /\ pc[p] = "idle"
    /\ ret[p].op = op
    /\ ret[p].err = "none"

\* C1: after a bootstrap and N >= 1 successful sequential uploads to a tag,
\* GetLatestLayerDigest on the tag returns the digest of the N-th, the most
\* recently uploaded, blob.
C1_LatestIsLastUploaded ==
    \A p \in active :
        (Succeeded(p, "GetLatestLayerDigest") /\ hist[ret[p].tag] # <<>>)
            => ret[p].digest = Digest(FileContent[Last(hist[ret[p].tag])])

\* C2: after a bootstrap and any number of successful sequential uploads, the
\* first element of the manifest's layers is the entry of the most recently
\* uploaded blob.
C2_NewestLayerFirst ==
    \A t \in Tags :
        (manifests[t] # <<>> /\ hist[t] # <<>>)
            => /\ Len(manifests[t][1].layers) > 0
               /\ manifests[t][1].layers[1].digest =
                      Digest(FileContent[Last(hist[t])])

\* C3: after a successful upload of file F to a tag, a download by tag reads
\* the bytes of F.
C3_DownloadByTagReadsLastUpload ==
    \A p \in active :
        (Succeeded(p, "GetDownloadReader") /\ hist[ret[p].tag] # <<>>)
            => ret[p].content = FileContent[Last(hist[ret[p].tag])]

\* C4: when CreateRepositoryIfNotExist(address, tag) has succeeded and the
\* same caller calls it again for the same tag right away, the second call
\* finds the repository and does not bootstrap again.
C4_SecondCreateDoesNotPush ==
    [][\A p \in active :
          (/\ Succeeded(p, "CreateRepositoryIfNotExist")
           /\ pc'[p] = "cr_layout")
              => arg'[p].tag # ret[p].tag]_vars

\* C5: the existence check of CreateRepositoryIfNotExist(address, tag) that
\* meets no transport error goes on to bootstrap exactly when no manifest
\* exists at address:tag.
C5_ChecksTheGivenTag ==
    [][\A p \in active, t \in Tags :
          /\ (pc[p] = "idle" /\ pc'[p] = "cr_layout" /\ arg'[p].tag = t)
                 => manifests[t] = <<>>
          /\ (/\ pc[p] = "idle" /\ pc'[p] = "idle"
              /\ ret'[p] = Failure("CreateRepositoryIfNotExist", t, "none"))
                 => manifests[t] # <<>>]_vars

\* C10: a descriptor that a successful UploadFile returned names a blob of the
\* repository with the bytes of the uploaded file, the tag it was uploaded to
\* keeps its manifest, and a download by that digest on that tag fails on a
\* transport or cache directory error only and otherwise reads exactly those
\* bytes, whatever else was uploaded before or after.
C10_RoundTripByDigest ==
    /\ \A r \in returned :
          /\ r.digest = Digest(FileContent[r.file])
          /\ manifests[r.tag] # <<>>
          /\ \E b \in blobs : b.digest = r.digest /\ b.content = FileContent[r.file]
    /\ \A p \in active, r \in returned :
          (/\ pc[p] = "idle"
           /\ ret[p].op = "GetDownloadReaderWithBlobDigest"
           /\ ret[p].tag = r.tag
           /\ ret[p].digest = r.digest)
             => \/ ret[p].err \in {"TransportError", "CacheDirError"}
                \/ ret[p].err = "none" /\ ret[p].content = FileContent[r.file]

\* C10, reached: fileA is read back by its digest after fileB was uploaded
\* to the same tag on top of it.
C10_Witness ==
    \E p \in active, t \in Tags :
        /\ Succeeded(p, "GetDownloadReaderWithBlobDigest")
        /\ ret[p].tag = t
        /\ hist[t] = <<"fileA", "fileB">>
        /\ [file |-> "fileA", digest |-> ret[p].digest, tag |-> t] \in returned
        /\ ret[p].content = FileContent["fileA"]

----------------------------------------------------------------------------
(* Two callers at once (SpecConc).                                         *)

\* C6: the push of an upload is never refused because the manifest changed
\* since the upload fetched it (the successful push stays possible), and a
\* successful push leaves the tag with exactly the fetched manifest plus the
\* upload's own layer, dropping what others pushed in between.
C6_StaleManifestPushAccepted ==
    /\ [](\A p \in active :
            pc[p] = "up_putmanifest"
               => ENABLED (UploadFile_PutManifest(p) /\ ret'[p].err = "none"))
    /\ [][\A p \in active :
            (pc[p] = "up_putmanifest" /\ pc'[p] = "idle" /\ ret'[p].err = "none")
               => manifests'[arg[p].tag] = <<UpdatedManifest(p)>>]_vars

\* C6, reached: both callers uploaded to the same tag with success, and the
\* manifest holds the layer of one of them only.
C6_Witness ==
    \E t \in Tags :
        /\ \A p \in {"p1", "p2"} : Succeeded(p, "UploadFile") /\ ret[p].tag = t
        /\ ret["p1"].digest # ret["p2"].digest
        /\ hist[t] = <<"fileA", "fileB">>
        /\ Len(manifests[t][1].layers) = 1

----------------------------------------------------------------------------
(* The singleton (SpecOnce).                                               *)

\* C7: whatever the interleaving of the SimpleNewOnce and NewOnce calls and
\* whatever they pass, the fileManager is constructed at most once, every
\* call returns that one instance, and its configuration is the one of the
\* call whose initializer ran.
C7_Singleton ==
    /\ Len(heap) <= 1
    /\ Len(initBy) = Len(heap)
    /\ \A c \in Callers : \A i \in 1..Len(oret[c]) :
          /\ Len(heap) = 1
          /\ oret[c][i].inst = 1
          /\ fmanager = 1
          /\ heap[1].hifConf = initBy[1].config

\* C7, reached: two callers that passed different configurations both hold
\* the instance, made with the configuration of one of them.
C7_Witness ==
    \E c, d \in Callers :
        /\ oret[c] # <<>> /\ oret[d] # <<>>
        /\ oret[c][1].config # oret[d][1].config
        /\ oret[c][1].inst = oret[d][1].inst
        /\ initBy[1].caller = c
        /\ heap[oret[d][1].inst].hifConf = oret[c][1].config

----------------------------------------------------------------------------
(* The catalog REST API (SpecCatalog).                                     *)

\* The artifact of the greatest id among all the artifacts of the listing.
MaxIdArtifact(l) == CHOOSE a \in {l[i] : i \in 1..Len(l)} :
                        \A i \in 1..Len(l) : l[i].ID <= a.ID

\* C8: for a repository with artifacts, in whatever order the registry lists
\* them, GetLatestArtifactDigest returns the digest of the artifact of the
\* greatest id of the repository.
C8_LatestIsMaxId ==
    (catRet.called /\ catRet.err = "none" /\ Len(artifacts) > 0)
        => catRet.digest = MaxIdArtifact(artifacts).Digest

\* C9: a listing that succeeds with no artifact gives the empty digest and no
\* error; when every artifact has a digest, the empty digest with no error
\* is returned in that case only.
C9_EmptyDigestIffNoArtifact ==
    catRet.called =>
        /\ (httpStatus = StatusOK /\ httpBody = "json" /\ Len(artifacts) = 0)
              => (catRet.digest = "" /\ catRet.err = "none")
        /\ (/\ catRet.digest = "" /\ catRet.err = "none"
            /\ \A i \in 1..Len(artifacts) : artifacts[i].Digest # "")
              => (httpStatus = StatusOK /\ httpBody = "json" /\ Len(artifacts) = 0)

\* C9, reached: the call on a repository without artifacts has returned the
\* empty digest and no error.
C9_Witness ==
    /\ catRet.called
    /\ httpStatus = StatusOK
    /\ httpBody = "json"
    /\ Len(artifacts) = 0
    /\ catRet.digest = ""
    /\ catRet.err = "none"

----------------------------------------------------------------------------
(* Sequential execution, further claims (Spec).                            *)

\* C11: the manifest of a bootstrapped tag has one layer per successful
\* upload since the bootstrap (none right after it), and GetLatestLayerDigest
\* returns the digest of the file uploaded last.
C11_LayerCountAndLatest ==
    /\ \A t \in Tags :
          manifests[t] # <<>> => Len(manifests[t][1].layers) = Len(hist[t])
    /\ \A p \in active :
          (Succeeded(p, "GetLatestLayerDigest") /\ hist[ret[p].tag] # <<>>)
              => ret[p].digest = Digest(FileContent[Last(hist[ret[p].tag])])

\* C14: once DeleteRepo has succeeded no tag of the repository has a
\* manifest, the CreateRepositoryIfNotExist that follows never finds the
\* repository (it fails or goes on to bootstrap), and its bootstrap push
\* leaves the manifest of the tag in place with an empty layer list.
C14_BootstrapAfterDelete ==
    [][\A p \in active :
          /\ Succeeded(p, "DeleteRepo") => \A t \in Tags : manifests[t] = <<>>
          /\ (/\ Succeeded(p, "DeleteRepo")
              /\ pc'[p] = "idle"
              /\ ret'[p].op = "CreateRepositoryIfNotExist")
                 => ret'[p].err \in SourceFailures \cup {"ParseError"}
          /\ (/\ ret[p].op = "DeleteRepo" /\ ret[p].err = "none"
              /\ pc[p] = "cr_push" /\ pc'[p] = "idle" /\ ret'[p].err = "none")
                 => /\ manifests'[ret'[p].tag] # <<>>
                    /\ manifests'[ret'[p].tag][1].layers = <<>>]_vars

\* C14, reached: the call that followed a successful DeleteRepo has pushed
\* the bootstrap manifest, and the tag holds it.
C14_Witness ==
    \E p \in active :
        /\ Succeeded(p, "CreateRepositoryIfNotExist")
        /\ ret[p].pushed
        /\ origin[ret[p].tag] = "afterDelete"
        /\ manifests[ret[p].tag] = <<manifestJSON>>

\* C15: CreateRepositoryIfNotExist builds the layout and pushes only after
\* the existence check failed with "not found"; a call that returns any
\* other failure of the check leaves the registry as it was.
C15_OnlyNotFoundBootstraps ==
    /\ [](\A p \in active :
            pc[p] \in {"cr_layout", "cr_push"} => arg[p].err = "NotFound")
    /\ [][\A p \in active :
            (/\ pc[p] = "idle" /\ pc'[p] = "idle"
             /\ ret'[p].op = "CreateRepositoryIfNotExist"
             /\ ret'[p].err # "none")
                => /\ ret'[p].err \in SourceFailures \cup {"ParseError"}
                   /\ ~ret'[p].pushed
                   /\ manifests' = manifests
                   /\ blobs' = blobs]_vars

\* C15, reached: the check failed on authentication while the repository
\* has no manifest at all, and the call returned that failure.
C15_Witness ==
    \E p \in active :
        /\ pc[p] = "idle"
        /\ ret[p].op = "CreateRepositoryIfNotExist"
        /\ ret[p].err = "Unauthorized"
        /\ \A t \in Tags : manifests[t] = <<>>

----------------------------------------------------------------------------
(* Manifests of any shape (SpecShapes).                                    *)

\* The manifest has no first layer with a string digest.
NoFirstLayerDigest(m) ==
    \/ "layers" \notin DOMAIN m
    \/ Len(m.layers) = 0
    \/ "digest" \notin DOMAIN m.layers[1]

\* C16: on a manifest without "layers", with a "layers" that is no array or
\* is empty, or with a first layer without a string digest,
\* GetLatestLayerDigest, GetBlobDigest and the download by tag return an
\* error, no digest and no content, and the download by tag does not go on
\* to fetch a blob.
C16_NoLayerNoDigest ==
    \A p \in active :
        /\ (/\ pc[p] = "idle"
            /\ ret[p].op \in {"GetLatestLayerDigest", "GetBlobDigest",
                              "GetDownloadReader"}
            /\ manifests[ret[p].tag] # <<>>
            /\ NoFirstLayerDigest(manifests[ret[p].tag][1]))
               => /\ ret[p].err # "none"
                  /\ ret[p].digest = NoDigest
                  /\ ret[p].content = NoContent
        /\ (pc[p] = "dl_blob" /\ arg[p].op = "GetDownloadReader")
               => ~NoFirstLayerDigest(fetched[p][1])

\* C16, reached: the download by tag on a freshly bootstrapped tag has
\* returned the error of a manifest without layers.
C16_Witness ==
    \E p \in active :
        /\ pc[p] = "idle"
        /\ ret[p].op = "GetDownloadReader"
        /\ ret[p].err = "NoLayers"
        /\ origin[ret[p].tag] = "bootstrap"
        /\ manifests[ret[p].tag][1].layers = <<>>

\* C19: a successful upload of one caller pushes the manifest it fetched
\* with one more element at the end of "layers": the layers that were there
\* keep their places, and every other field is there with the value it had.
C19_AppendKeepsTheRest ==
    [][\A p \in active :
          (pc[p] = "up_putmanifest" /\ pc'[p] = "idle" /\ ret'[p].err = "none")
             => LET old == manifests[arg[p].tag][1]
                    new == manifests'[arg[p].tag][1]
                    n == IF "layers" \in DOMAIN old THEN Len(old.layers) ELSE 0
                IN /\ fetched[p] = manifests[arg[p].tag]
                   /\ "layers" \in DOMAIN new
                   /\ DOMAIN new \ {"layers"} =
                         DOMAIN old \ {"layers", "layersNonArray"}
                   /\ \A k \in DOMAIN new \ {"layers"} : new[k] = old[k]
                   /\ Len(new.layers) = n + 1
                   /\ \A i \in 1..n : new.layers[i] = old.layers[i]
                   /\ new.layers[n + 1].digest = ret'[p].digest]_vars

\* C19, reached: an upload has added a second layer to a manifest that has
\* a field the package does not know.
C19_Witness ==
    \E p \in active :
        /\ Succeeded(p, "UploadFile")
        /\ "annotations" \in DOMAIN manifests[ret[p].tag][1]
        /\ Len(manifests[ret[p].tag][1].layers) = 2
        /\ manifests[ret[p].tag][1].layers[1] = layerA

----------------------------------------------------------------------------
(* Two callers at once, further claims (SpecConc).                         *)

\* C20: the bootstrap push of a caller is never held back by what another
\* caller did to the tag since the existence check, and it replaces the
\* manifest of the tag, layers and all, by the bootstrap manifest.
C20_BootstrapOverwritesUpload ==
    /\ [](\A p \in active :
            pc[p] = "cr_push"
               => ENABLED (CreateRepositoryIfNotExist_Push(p) /\ ret'[p].err = "none"))
    /\ [][\A p \in active :
            (pc[p] = "cr_push" /\ pc'[p] = "idle" /\ ret'[p].err = "none")
               => manifests'[arg[p].tag] = <<manifestJSON>>]_vars

\* C20, reached: the upload of p2 returned success, the bootstrap push of p1
\* landed after it, and the manifest of the tag has no layer.
C20_Witness ==
    \E t \in Tags :
        /\ Succeeded("p1", "CreateRepositoryIfNotExist")
        /\ ret["p1"].pushed /\ ret["p1"].tag = t
        /\ Succeeded("p2", "UploadFile") /\ ret["p2"].tag = t
        /\ \E r \in returned : r.tag = t /\ r.digest = ret["p2"].digest
        /\ manifests[t] # <<>>
        /\ manifests[t][1].layers = <<>>

----------------------------------------------------------------------------
(* The repository locator (SpecLocator).                                   *)

\* The path of the address, as the locator sees it.
PathOf(address) == extractHostnameAndPathFromURL(address).path

\* The text behind the last "/" of a path that ends in no "/".
FinalSegment(path) ==
    LET t == Trim(path, "/")
        slash == CHOOSE i \in 0..Len(t) :
                     /\ i > 0 => t[i] = "/"
                     /\ \A k \in (i + 1)..Len(t) : t[k] # "/"
    IN SubSeq(t, slash + 1, Len(t))

\* Where the colons of a segment are.
Colons(seg) == {i \in 1..Len(seg) : seg[i] = ":"}

\* C12: the repository name of an address whose final path segment has no
\* colon is that segment, and the one of an address whose final path
\* segment has exactly one colon is the text before the colon.
C12_RepoNameUpToColon ==
    (parsed.called /\ parsed.err = "none") =>
        LET seg == FinalSegment(PathOf(harborRepo))
        IN /\ Colons(seg) = {} => parsed.repoName = seg
           /\ Cardinality(Colons(seg)) = 1 =>
                 \E i \in Colons(seg) : parsed.repoName = SubSeq(seg, 1, i - 1)

\* C13: parseHarborURL does not succeed with an empty repository name, and
\* DeleteRepo and GetLatestArtifactDigest on an address with an empty path
\* or an empty repository name return InvalidAddress and send no request.
C13_EmptyRepoNameIsInvalid ==
    LET u == parseHarborURL(harborRepo)
        invalid == /\ u.err = "none"
                   /\ PathOf(harborRepo) = <<>> \/ u.repoName = <<>>
    IN /\ (parsed.called /\ parsed.err = "none") => parsed.repoName # <<>>
       /\ (catRet.called /\ invalid)
             => (catRet.err = "InvalidAddress" /\ request = <<>>)
       /\ (delRet.called /\ invalid)
             => (delRet.err = "InvalidAddress" /\ request = <<>>)

\* C18: the repository name of an address whose final path segment has two
\* or more colons is the segment up to its last colon with every colon
\* turned into "-": the parts but the last, in their order, joined by "-".
C18_RepoNameJoinsParts ==
    (parsed.called /\ parsed.err = "none") =>
        LET seg == FinalSegment(PathOf(harborRepo))
            last == CHOOSE i \in Colons(seg) \cup {0} :
                        \A j \in Colons(seg) : j <= i
        IN Cardinality(Colons(seg)) >= 2 =>
              /\ Len(parsed.repoName) = last - 1
              /\ \A i \in 1..(last - 1) :
                    parsed.repoName[i] = IF seg[i] = ":" THEN "-" ELSE seg[i]

\* C18, reached: the address a/a:b: was parsed, and its repository name
\* is a-b.
C18_Witness ==
    /\ parsed.called
    /\ parsed.err = "none"
    /\ harborRepo.rest = <<"a", "/", "a", ":", "b", ":">>
    /\ parsed.repoName = <<"a", "-", "b">>

----------------------------------------------------------------------------
(* The catalog REST API, further claims (SpecCatalog).                     *)

\* C17: when the registry answers a request with a status other than 200,
\* GetLatestArtifactDigest got no artifacts from GetArtifactsByPage and
\* returns no digest, DeleteRepo deletes nothing, and the error of either
\* carries that status and the project and repository names of the request.
C17_StatusErrorNamesTheRequest ==
    /\ (catRet.called /\ request # <<>> /\ httpStatus \notin {0, StatusOK})
          => /\ catRet.err = "HTTPStatusError"
             /\ catRet.page = <<>>
             /\ catRet.digest = ""
             /\ catRet.status = httpStatus
             /\ catRet.projectName = request[1].projectName
             /\ catRet.repoName = request[1].repoName
    /\ (delRet.called /\ request # <<>> /\ httpStatus \notin {0, StatusOK})
          => /\ delRet.err = "HTTPStatusError"
             /\ delRet.status = httpStatus
             /\ delRet.projectName = request[1].projectName
             /\ delRet.repoName = request[1].repoName
    /\ catRet.err = "HTTPStatusError" => httpStatus \notin {0, StatusOK}
    /\ delRet.err = "HTTPStatusError" => httpStatus \notin {0, StatusOK}

\* C17, reached: the listing of a repository with artifacts was answered
\* with 404, and the error names the status, the project and the repository.
C17_Witness ==
    /\ catRet.called
    /\ httpStatus = 404
    /\ Len(artifacts) > 0
    /\ catRet.err = "HTTPStatusError"
    /\ catRet.status = 404
    /\ catRet.projectName = <<"a">>
    /\ catRet.repoName = <<"b">>

----------------------------------------------------------------------------
(* Two callers at once: the bootstrap (SpecConc).                          *)

----------------------------------------------------------------------------
(* Sequential execution: uploads and bootstraps (Spec).                    *)

\* C22: an upload to a tag without a manifest stores its blob and then
\* returns an error and no descriptor; no step of it gives the tag a
\* manifest.
C22_UploadNeedsAManifest ==
    [][\A p \in active :
          /\ (pc[p] = "idle" /\ pc'[p] = "up_source") => manifests' = manifests
          /\ (/\ pc[p] \in {"up_source", "up_putmanifest"}
              /\ manifests[arg[p].tag] = <<>>)
                 => /\ pc'[p] = "idle"
                    /\ ret'[p].op = "UploadFile"
                    /\ ret'[p].err # "none"
                    /\ ret'[p].digest = NoDigest
                    /\ manifests'[arg[p].tag] = <<>>]_vars

\* C22, reached: an upload to a repository without any manifest has stored
\* its blob and returned the error of the missing manifest.
C22_Witness ==
    \E p \in active :
        /\ pc[p] = "idle"
        /\ ret[p].op = "UploadFile"
        /\ ret[p].err = "NotFound"
        /\ ret[p].digest = NoDigest
        /\ \A t \in Tags : manifests[t] = <<>>
        /\ \E f \in Files : \E b \in blobs : b.digest = Digest(FileContent[f])

\* C23: the layer that a successful upload leaves at the end of the manifest
\* has the digest of the descriptor it returns, which is the digest of the
\* bytes of the file as the registry stores them, the size of the file, the
\* media type of a compressed tar layer, and nothing else.
C23_LayerMatchesDescriptor ==
    [][\A p \in active :
          (pc[p] = "up_putmanifest" /\ pc'[p] = "idle" /\ ret'[p].err = "none")
             => LET l == Last(manifests'[arg[p].tag][1].layers)
                IN /\ DOMAIN l = {"mediaType", "digest", "size"}
                   /\ l.digest = ret'[p].digest
                   /\ \E b \in blobs : /\ b.digest = l.digest
                                       /\ b.content = FileContent[arg[p].file]
                   /\ l.size = Len(FileContent[arg[p].file])
                   /\ l.mediaType = "application/vnd.oci.image.layer.v1.tar+gzip"]_vars

\* C23, reached: fileB was uploaded after fileA, and the last layer of the
\* manifest is its entry.
C23_Witness ==
    \E p \in active :
        /\ Succeeded(p, "UploadFile")
        /\ hist[ret[p].tag] = <<"fileA", "fileB">>
        /\ ret[p].digest = Digest(FileContent["fileB"])
        /\ Last(manifests[ret[p].tag][1].layers) =
              [mediaType |-> LayerMediaType, digest |-> ret[p].digest, size |-> 1]

\* C24: the push step of CreateRepositoryIfNotExist(address, tag) leaves a
\* manifest that exists at address:tag as it is.
C24_CreateLeavesManifest ==
    [][\A p \in active :
          (pc[p] = "cr_push" /\ manifests[arg[p].tag] # <<>>)
             => manifests'[arg[p].tag] = manifests[arg[p].tag]]_vars

\* C25: no step of an upload but its successful return changes a manifest,
\* and an upload that returns an error returns no descriptor, at whatever
\* step it fails.
C25_UploadErrorLeavesManifest ==
    [][\A p \in active :
          /\ (pc[p] = "idle" /\ pc'[p] = "up_source") => manifests' = manifests
          /\ (pc[p] = "up_source" /\ pc'[p] = "up_putmanifest")
                => manifests' = manifests
          /\ (/\ \/ pc[p] \in {"up_source", "up_putmanifest"}
                 \/ pc[p] = "idle" /\ ret'[p] # ret[p]
              /\ pc'[p] = "idle"
              /\ ret'[p].op = "UploadFile"
              /\ ret'[p].err # "none")
                => /\ ret'[p].digest = NoDigest
                   /\ manifests' = manifests]_vars

\* C25, reached: an upload has failed after its blob was stored; the tag
\* has its manifest, and no layer of it names the blob.
C25_Witness ==
    \E p \in active, f \in Files :
        /\ pc[p] = "idle"
        /\ ret[p].op = "UploadFile"
        /\ ret[p].err = "TransportError"
        /\ manifests[ret[p].tag] # <<>>
        /\ \E b \in blobs : b.digest = Digest(FileContent[f])
        /\ \A i \in 1..Len(manifests[ret[p].tag][1].layers) :
              manifests[ret[p].tag][1].layers[i].digest # Digest(FileContent[f])

----------------------------------------------------------------------------
(* Manifests of any shape: the two readers of the latest layer (SpecShapes). *)

\* What GetBlobDigest and GetLatestLayerDigest can return.
DigestErrors ==
    {"none", "TransportError", "NotFound", "NoLayers", "InvalidLayer",
     "NoDigestField"}

DigestsRead == {NoDigest, Digest(configContent)} \cup FileDigests

\* C26: in every state and for every tag, GetBlobDigest can return a digest
\* and an error exactly when GetLatestLayerDigest can return the same two,
\* and neither changes the registry.
C26_SameDigestOrBothError ==
    /\ [](\A p \in active, t \in Tags, d \in DigestsRead, e \in DigestErrors :
            pc[p] = "idle"
               => (ENABLED (/\ GetBlobDigest(p, t)
                            /\ ret'[p].digest = d /\ ret'[p].err = e)
                   <=> ENABLED (/\ GetLatestLayerDigest(p, t)
                                /\ ret'[p].digest = d /\ ret'[p].err = e)))
    /\ [][\A p \in active :
            (/\ pc[p] = "idle" /\ pc'[p] = "idle"
             /\ ret'[p].op \in {"GetBlobDigest", "GetLatestLayerDigest"})
                => (manifests' = manifests /\ blobs' = blobs)]_vars

\* C26, reached: GetBlobDigest has returned the digest of the first layer
\* of a manifest with a layer.
C26_Witness ==
    \E p \in active :
        /\ Succeeded(p, "GetBlobDigest")
        /\ ret[p].digest = layerA.digest
        /\ manifests[ret[p].tag][1].layers[1] = layerA

====
